---- MODULE Spec2Model ----
(***************************************************************************)
(* db-gateway: the urls / snapshots store and the four request handlers    *)
(* (insert_url, delete_url, fetch_url_to_snapshot, insert_snapshot) of     *)
(* src/db-gateway/src/urls.rs and src/db-gateway/src/snapshots.rs.         *)
(*                                                                         *)
(* Every SQL statement is one atomic step (the handlers use the pool in    *)
(* autocommit mode, no transaction is ever opened); a handler that awaits  *)
(* several statements is several steps, so concurrent requests interleave  *)
(* between its statements.  Any statement may fail with a storage error.   *)
(* The number of requests a behaviour receives is bounded by MaxRequests.  *)
(*                                                                         *)
(* src/db-gateway/src/main.rs holds an earlier copy of the four handlers   *)
(* (its insert_snapshot does not call crawl_url, its fallback query orders *)
(* by updated_at); the model is that of the library modules.               *)
(***************************************************************************)
EXTENDS Integers, FiniteSets, Sequences, TLC

VARIABLES
    urls,      \* rows of table urls
    snapshots, \* rows of table snapshots
    early,     \* the tasks whose INSERT INTO snapshots may run at the NOW() of
               \* the latest snapshot: those that were about to run it, on
               \* another connection, when the first INSERT of that time ran
    requests,  \* the number of requests received so far
    pc,        \* per request task: the statement it is about to run
    req,       \* per request task: the payload of the request it is running
    rec,       \* per request task: record.id of the row its INSERT returned
    cycling,   \* whether Observed is the crawler: a client that polls
               \* fetch_url_to_snapshot and posts a snapshot of the URL it is
               \* given, over and over, instead of sending requests at will
    picked,    \* the URL the crawler was given by its last fetch_url_to_snapshot
               \* and has not posted a snapshot of yet (NONE otherwise)
    ticks,     \* per background job (html_parser, embed): the number of ticks
               \* of its interval so far, counted modulo MaxTicks + 1
    fault,     \* whether the last step was a statement of Observed that failed
               \* with a storage error
    out,       \* the response Observed returned in the last step (NoResponse
               \* when the last step returned none to it)
    eff,       \* history: what the request Observed is running, or returned from
               \* in the last step, has written
    clean,     \* history: no other task has written a row of the URL of the
               \* request Observed is running since that request began
    last       \* history: the previous request of Observed if it was an
               \* insert_snapshot that inserted a snapshot, or found the one
               \* its predecessor left (prev) identical: its URL, that snapshot,
               \* the response; until another task writes a row of that URL

vars == <<urls, snapshots, early, requests, pc, req, rec, cycling, picked, ticks, fault, out, eff, clean, last>>


(***************************************************************************)
(* Bounds of the model.                                                    *)
(***************************************************************************)
MaxRequests == 3
MaxTicks == 2

Procs == {"t1", "t2"}
Observed == "t1"

(***************************************************************************)
(* Values.  NULL is SQL NULL / Option::None of an id or a timestamp; ids   *)
(* and timestamps start at 1.  NONE is a missing JSON field of a payload.  *)
(***************************************************************************)
NULL == 0
NONE == "<none>"

UA == "http://a.example/"
UB == "http://b.example/"
URelative == "not-a-url"
UNoHost == "mailto:x@a.example"
UBadPort == "http://a.example:99999/"

Urls == {UA, UB}
UrlInputs == Urls \cup {URelative, UNoHost, UBadPort, NONE}
Htmls == {"<p>1</p>", "<p>2</p>"}
HtmlInputs == Htmls \cup {NONE}

Response(status, body) == [status |-> status, body |-> body]
Panic == Response(0, "panic")
NoResponse == Response(0, "")

NoRequest == [op |-> "", url |-> NONE, html |-> NONE]
NoCall == [url |-> NONE, sid |-> NULL, body |-> "", prev |-> NULL]

(***************************************************************************)
(* validate_url (lib.rs).  UrlParse is url::Url::parse on the inputs of    *)
(* the model.                                                              *)
(***************************************************************************)
UrlParse(u) ==
    CASE u \in Urls     -> [ok |-> TRUE, has_host |-> TRUE, err |-> ""]
      [] u = UNoHost    -> [ok |-> TRUE, has_host |-> FALSE, err |-> ""]
      [] u = URelative  -> [ok |-> FALSE, has_host |-> FALSE, err |-> "RelativeUrlWithoutBase"]
      [] u = UBadPort   -> [ok |-> FALSE, has_host |-> FALSE, err |-> "InvalidPort"]

\* Result<bool, ParseError>: ok = FALSE is Err(e)
validate_url(u) ==
    LET parsed_url == UrlParse(u) IN
    IF parsed_url.ok THEN [ok |-> TRUE, val |-> parsed_url.has_host]
    ELSE IF parsed_url.err = "RelativeUrlWithoutBase" THEN [ok |-> TRUE, val |-> FALSE]
    ELSE [ok |-> FALSE, val |-> FALSE]

(***************************************************************************)
(* The SQL statements, as functions of the table they run on.              *)
(***************************************************************************)

\* a new row of urls: Content::from_url leaves crawled_at None, snapshot_id
\* has no default, updated_at defaults to NOW()
UrlRow(id, url, t) ==
    [id |-> id, url |-> url, crawled_at |-> NULL, snapshot_id |-> NULL, updated_at |-> t]

\* a new row of snapshots: content = {url, html}, created_at defaults to NOW()
SnapshotRow(id, url, html, t) ==
    [id |-> id, url |-> url, html |-> html, created_at |-> t]

\* INSERT INTO urls (url, content) VALUES ($1, $2) ON CONFLICT (url) DO NOTHING
InsertUrlNoUniqueConstraint(rows, id, url, t) == rows \cup {UrlRow(id, url, t)}
InsertUrlResetsRow(rows, id, url, t) ==
    IF \E r \in rows : r.url = url
    THEN {IF r.url = url
          THEN [r EXCEPT !.crawled_at = NULL, !.snapshot_id = NULL, !.updated_at = t]
          ELSE r
            : r \in rows}
    ELSE rows \cup {UrlRow(id, url, t)}
insert_url_sql(rows, id, url, t) ==
    IF \E r \in rows : r.url = url THEN rows ELSE rows \cup {UrlRow(id, url, t)}

\* UPDATE urls SET content = $1 WHERE url = $2, with the trigger
\* update_urls_updated_at; $1 is Content {url, crawled_at}, crawled_at the
\* time of chrono::Utc::now(), updated_at that of NOW()
CrawlUrlClearsRelation(rows, url, crawled_at, t) ==
    {IF r.url = url
     THEN [r EXCEPT !.crawled_at = crawled_at, !.snapshot_id = NULL, !.updated_at = t]
     ELSE r
        : r \in rows}
crawl_url(rows, url, crawled_at, t) ==
    {IF r.url = url THEN [r EXCEPT !.crawled_at = crawled_at, !.updated_at = t] ELSE r
        : r \in rows}

\* UPDATE urls SET snapshot_id = $1 WHERE url = $2, with the trigger
AddRelationNoWhereClause(rows, url, snapshot_id, t) ==
    {[r EXCEPT !.snapshot_id = snapshot_id, !.updated_at = t] : r \in rows}
AddRelationNoUpdate(rows, url, snapshot_id, t) == rows
AddRelationInsertsRow(rows, url, snapshot_id, t) ==
    IF \E r \in rows : r.url = url
    THEN {IF r.url = url THEN [r EXCEPT !.snapshot_id = snapshot_id, !.updated_at = t] ELSE r
            : r \in rows}
    ELSE rows \cup {[url |-> url, id |-> 1 + Cardinality(rows), crawled_at |-> NULL,
                     snapshot_id |-> snapshot_id, updated_at |-> t]}
add_relation_to_url(rows, url, snapshot_id, t) ==
    {IF r.url = url THEN [r EXCEPT !.snapshot_id = snapshot_id, !.updated_at = t] ELSE r
        : r \in rows}

\* INSERT INTO snapshots (url, content) VALUES ($1, $2) RETURNING *
InsertSnapshotReplaces(rows, id, url, html, t) ==
    {s \in rows : s.url # url} \cup {SnapshotRow(id, url, html, t)}
insert_snapshot_sql(rows, id, url, html, t) ==
    rows \cup {SnapshotRow(id, url, html, t)}

\* DELETE FROM urls WHERE url = $1
DeleteWithoutWhereClause(rows, url) == {}
delete_url_sql(rows, url) == {r \in rows : r.url # url}

\* SELECT * FROM snapshots WHERE url = $1 ORDER BY created_at DESC LIMIT 1:
\* the rows the query may return (rows of equal created_at are in no
\* specified order), the empty set when it returns no row
FetchLastOfAnyUrl(rows, url) ==
    {s \in rows : \A o \in rows : o.created_at <= s.created_at}
FetchLastOldestFirst(rows, url) ==
    LET mine == {s \in rows : s.url = url} IN
    {s \in mine : \A o \in mine : s.created_at <= o.created_at}
fetch_last_snapshot(rows, url) ==
    LET mine == {s \in rows : s.url = url} IN
    {s \in mine : \A o \in mine : o.created_at <= s.created_at}

\* SELECT * FROM urls WHERE snapshot_id IS NULL ORDER BY updated_at ASC LIMIT 1
PrimaryNewestFirst(rows) ==
    LET pending == {r \in rows : r.snapshot_id = NULL} IN
    {r \in pending : \A o \in pending : o.updated_at <= r.updated_at}
fetch_url_primary(rows) ==
    LET pending == {r \in rows : r.snapshot_id = NULL} IN
    {r \in pending : \A o \in pending : r.updated_at <= o.updated_at}

\* SELECT * FROM urls ORDER BY updated_at ASC LIMIT 1: the second query of the
\* copy of fetch_url_to_snapshot in main.rs
fetch_url_oldest_updated(rows) ==
    {r \in rows : \A o \in rows : r.updated_at <= o.updated_at}

\* SELECT * FROM urls ORDER BY (content->>'crawled_at') NULLS FIRST LIMIT 1
FallbackByUpdatedAt(rows) ==
    {r \in rows : \A o \in rows : r.updated_at <= o.updated_at}
fetch_url_fallback(rows) ==
    IF \E r \in rows : r.crawled_at = NULL
    THEN {r \in rows : r.crawled_at = NULL}
    ELSE {r \in rows : \A o \in rows : r.crawled_at <= o.crawled_at}

\* uuid_generate_v4(): an id no row of the table holds (ids are opaque, which
\* one is immaterial).  Snapshots are never deleted, so their ids count up;
\* a urls row takes the first free id of those set aside for its url.
NewSnapshotId == Cardinality(snapshots) + 1
UrlNo(url) == IF url = UA THEN 1 ELSE 2
NewUrlId(url) ==
    CHOOSE i \in {UrlNo(url) + 2 * k : k \in 0..Cardinality(urls)} :
        /\ \A r \in urls : r.id # i
        /\ \A j \in {UrlNo(url) + 2 * k : k \in 0..Cardinality(urls)} :
              (\A r \in urls : r.id # j) => i <= j

(***************************************************************************)
(* Timestamps.  A statement runs later than every statement before it, so  *)
(* the timestamp it writes is later than those the column holds; only an   *)
(* INSERT INTO snapshots of a task in `early` writes the created_at of the *)
(* latest snapshot.  The queries only compare the timestamps of one        *)
(* column, so a column keeps each timestamp as its rank among those it     *)
(* holds: Commit writes the tables a statement leaves behind, ranked.      *)
(***************************************************************************)
Max(S) == CHOOSE x \in S : \A y \in S : y <= x

UpdatedAt(rows) == {r.updated_at : r \in rows}
CrawledAt(rows) == {r.crawled_at : r \in rows} \ {NULL}
CreatedAt(rows) == {s.created_at : s \in rows}

Later(T) == Max(T \cup {0}) + 1

CreatedAtTimes(p) ==
    {Later(CreatedAt(snapshots))}
        \cup (IF p \in early THEN {Max(CreatedAt(snapshots) \cup {0})} ELSE {})

Rank(T, x) == IF x = NULL THEN NULL ELSE Cardinality({y \in T : y <= x})

Commit(urlRows, snapshotRows) ==
    /\ urls' = {[r EXCEPT !.updated_at = Rank(UpdatedAt(urlRows), @),
                          !.crawled_at = Rank(CrawledAt(urlRows), @)] : r \in urlRows}
    /\ snapshots' = {[s EXCEPT !.created_at = Rank(CreatedAt(snapshotRows), @)]
                       : s \in snapshotRows}

(***************************************************************************)
(* History: what a statement changed.  The columns of urls in which a row  *)
(* that stays differs, "url_row" when rows come or go, "snapshot" when a   *)
(* row of snapshots comes.                                                 *)
(***************************************************************************)
Changed(urlRows, snapshotRows) ==
    {c \in {"crawled_at", "updated_at", "snapshot_id"} :
        \E a \in urls, b \in urlRows : a.id = b.id /\ a[c] # b[c]}
    \cup (IF {r.id : r \in urlRows} # {r.id : r \in urls} THEN {"url_row"} ELSE {})
    \cup (IF snapshotRows # snapshots THEN {"snapshot"} ELSE {})

\* the request Observed is running comes directly after its previous one, on
\* the same URL, and no other task has written a row of that URL meanwhile
InARow(url, cleanNow) == last # NoCall /\ last.url = url /\ cleanNow

Duplicate == Response(200, "No need to insert the same content twice.")

(***************************************************************************)
(* One step of task p on request r: its statement leaves the tables        *)
(* urlRows and snapshotRows behind, the task moves to `next` ("idle" when  *)
(* the handler returns `resp`), newrec is its record.id.                   *)
(***************************************************************************)
Statement(p, r, next, resp, urlRows, snapshotRows, newrec, failed) ==
    LET begins == pc[p] = "idle"
        counted == begins /\ ~(cycling /\ p = Observed)
        finishes == next = "idle"
        tags == Changed(urlRows, snapshotRows)
        writes == tags # {}
        latest == \E s \in snapshotRows :
                    \A o \in snapshots : o.created_at < s.created_at
        cleanNow == IF begins THEN TRUE ELSE clean
        effNow == IF begins THEN tags ELSE eff \cup tags
    IN  /\ Commit(urlRows, snapshotRows)
        /\ counted => requests < MaxRequests
        /\ requests' = IF counted THEN requests + 1 ELSE requests
        /\ UNCHANGED <<cycling, ticks>>
        /\ picked' = IF ~(cycling /\ p = Observed /\ finishes) THEN picked
                     ELSE IF r.op = "fetch_url_to_snapshot" /\ resp.status = 200
                     THEN resp.body
                     ELSE NONE
        /\ fault' = (failed /\ p = Observed)
        /\ pc' = [pc EXCEPT ![p] = next]
        /\ req' = [req EXCEPT ![p] = IF finishes THEN NoRequest ELSE r]
        /\ rec' = [rec EXCEPT ![p] = IF finishes THEN NULL ELSE newrec]
        /\ early' = IF "snapshot" \in tags /\ latest
                    THEN {q \in Procs \ {p} : pc[q] = "insert"}
                    ELSE IF writes /\ "snapshot" \notin tags THEN {}
                    ELSE early \ {p}
        /\ out' = IF p = Observed THEN resp ELSE NoResponse
        /\ eff' = IF p = Observed THEN effNow
                  ELSE IF pc[Observed] = "idle" THEN {}
                  ELSE eff
        /\ clean' = IF p = Observed THEN (finishes \/ cleanNow)
                    ELSE IF writes /\ req[Observed].url = r.url THEN FALSE
                    ELSE clean
        /\ last' = IF p = Observed
                   THEN (IF ~finishes THEN last
                         ELSE IF r.op # "insert_snapshot" \/ ~cleanNow THEN NoCall
                         ELSE IF "snapshot" \in effNow
                         THEN [url |-> r.url, sid |-> rec[p], body |-> resp.body,
                               prev |-> IF InARow(r.url, cleanNow) THEN last.sid ELSE NULL]
                         ELSE IF InARow(r.url, cleanNow) /\ resp = Duplicate
                         THEN [url |-> r.url, sid |-> last.sid, body |-> resp.body,
                               prev |-> last.sid]
                         ELSE NoCall)
                   ELSE IF writes /\ last.url = r.url THEN NoCall
                   ELSE last

Step(p, r, next, resp, urlRows, snapshotRows, newrec) ==
    Statement(p, r, next, resp, urlRows, snapshotRows, newrec, FALSE)

\* a statement that fails with a storage error: nothing is written and the
\* handler ends with resp
Fail(p, r, resp) == Statement(p, r, "idle", resp, urls, snapshots, rec[p], TRUE)

\* a step that writes no row: a handler that returns before its first
\* statement, a query
ReadTouchesRows(p, r, next, resp) ==
    Step(p, r, next, resp,
         {[row EXCEPT !.updated_at = Later(UpdatedAt(urls))] : row \in urls},
         snapshots, rec[p])
Read(p, r, next, resp) == Step(p, r, next, resp, urls, snapshots, rec[p])

Return(p, r, resp) == Read(p, r, "idle", resp)

(***************************************************************************)
(* The payloads of the requests.                                           *)
(***************************************************************************)
UrlPayloads == {[op |-> o, url |-> u, html |-> NONE] : o \in {"insert_url"}, u \in UrlInputs}
DeletePayloads ==
    {[op |-> o, url |-> u, html |-> NONE] : o \in {"delete_url"}, u \in Urls \cup {NONE}}
SnapshotPayloads ==
    {[op |-> o, url |-> u, html |-> h] : o \in {"insert_snapshot"}, u \in Urls, h \in HtmlInputs}
    \cup {[op |-> o, url |-> u, html |-> h]
            : o \in {"insert_snapshot"}, u \in UrlInputs \ Urls, h \in {"<p>1</p>"}}
FetchPayload == [op |-> "fetch_url_to_snapshot", url |-> NONE, html |-> NONE]

Start(crawler) ==
    /\ urls = {}
    /\ snapshots = {}
    /\ early = {}
    /\ requests = 0
    /\ cycling = crawler
    /\ picked = NONE
    /\ ticks = [j \in {"html_parser", "embed"} |-> 0]
    /\ fault = FALSE
    /\ pc = [p \in Procs |-> "idle"]
    /\ req = [p \in Procs |-> NoRequest]
    /\ rec = [p \in Procs |-> NULL]
    /\ out = NoResponse
    /\ eff = {}
    /\ clean = TRUE
    /\ last = NoCall

Init == Start(FALSE)

(***************************************************************************)
(* POST /api/urls: insert_url (urls.rs)                                    *)
(***************************************************************************)
insert_url_on(p, r) ==
    /\ pc[p] = "idle"
    /\ IF r.url = NONE THEN Return(p, r, Response(400, "Missing url"))
       ELSE IF ~validate_url(r.url).ok THEN Return(p, r, Panic)
       ELSE IF ~validate_url(r.url).val
       THEN Return(p, r, Response(400, "only absolute urls are allowed"))
       ELSE \/ Fail(p, r, Response(500, "Failed to insert url"))
            \/ LET rows == insert_url_sql(urls, NewUrlId(r.url), r.url, Later(UpdatedAt(urls))) IN
               IF rows = urls
               THEN Return(p, r, Response(200, "URL already exists"))
               ELSE Step(p, r, "idle", Response(200, "Url inserted"), rows, snapshots, NULL)

insert_url(p) == \E r \in UrlPayloads : insert_url_on(p, r)

(***************************************************************************)
(* POST /api/url/delete: delete_url (urls.rs)                              *)
(***************************************************************************)
delete_url_on(p, r) ==
    /\ pc[p] = "idle"
    /\ IF r.url = NONE THEN Return(p, r, Response(400, "Missing url"))
       ELSE \/ Fail(p, r, Response(500, "Failed to delete url"))
            \/ Step(p, r, "idle", Response(200, "Url deleted"),
                    delete_url_sql(urls, r.url), snapshots, NULL)

delete_url(p) == \E r \in DeletePayloads : delete_url_on(p, r)

(***************************************************************************)
(* GET /api/url: fetch_url_to_snapshot (snapshots.rs), two queries         *)
(***************************************************************************)
fetch_url_to_snapshot_primary(p) ==
    /\ pc[p] = "idle"
    /\ \/ Fail(p, FetchPayload, Response(500, NONE))
       \/ IF fetch_url_primary(urls) # {}
          THEN \E record \in fetch_url_primary(urls) :
                 Return(p, FetchPayload, Response(200, record.url))
          ELSE Read(p, FetchPayload, "fallback", NoResponse)

fetch_url_to_snapshot_fallback(p) ==
    /\ pc[p] = "fallback"
    /\ \/ Fail(p, req[p], Response(500, NONE))
       \/ IF fetch_url_fallback(urls) # {}
          THEN \E record \in fetch_url_fallback(urls) :
                 Return(p, req[p], Response(200, record.url))
          ELSE Return(p, req[p], Response(500, NONE))

(***************************************************************************)
(* POST /api/snapshots: insert_snapshot (snapshots.rs), four statements    *)
(***************************************************************************)
\* lines 131-152: the payload checks, validate_url(..).unwrap(), crawl_url
insert_snapshot_crawl_on(p, r) ==
    /\ pc[p] = "idle"
    /\ IF r.url = NONE THEN Return(p, r, Response(400, "Missing url"))
       ELSE IF r.html = NONE THEN Return(p, r, Response(400, "Missing html"))
       ELSE IF ~validate_url(r.url).ok THEN Return(p, r, Panic)
       ELSE IF ~validate_url(r.url).val
       THEN Return(p, r, Response(400, "only absolute urls are allowed"))
       ELSE \/ Fail(p, r, Response(500, "Failed to crawl url"))
            \/ Step(p, r, "fetch_last", NoResponse,
                    crawl_url(urls, r.url, Later(CrawledAt(urls)), Later(UpdatedAt(urls))),
                    snapshots, NULL)

insert_snapshot_crawl(p) == \E r \in SnapshotPayloads : insert_snapshot_crawl_on(p, r)

\* lines 154-179: fetch_last_snapshot and the comparison with html
insert_snapshot_fetch_last(p) ==
    /\ pc[p] = "fetch_last"
    /\ \/ Fail(p, req[p], Response(500, "Failed to fetch last snapshot"))
       \/ IF fetch_last_snapshot(snapshots, req[p].url) = {}
          THEN Read(p, req[p], "insert", NoResponse)
          ELSE \E last_snapshot \in fetch_last_snapshot(snapshots, req[p].url) :
                 IF last_snapshot.html = req[p].html
                 THEN Return(p, req[p],
                             Response(200, "No need to insert the same content twice."))
                 ELSE Read(p, req[p], "insert", NoResponse)

\* lines 181-208: INSERT INTO snapshots (url, content) ... RETURNING *
insert_snapshot_insert(p) ==
    /\ pc[p] = "insert"
    /\ \/ Fail(p, req[p], Response(500, "Failed to insert snapshot"))
       \/ \E t \in CreatedAtTimes(p) :
            /\ t >= 1
            /\ Step(p, req[p], "relate", NoResponse, urls,
                    insert_snapshot_sql(snapshots, NewSnapshotId, req[p].url, req[p].html, t),
                    NewSnapshotId)

\* lines 210-219: add_relation_to_url(..).unwrap()
insert_snapshot_relate(p) ==
    /\ pc[p] = "relate"
    /\ \/ Fail(p, req[p], Panic)
       \/ Step(p, req[p], "idle", Response(200, "Snapshot inserted"),
               add_relation_to_url(urls, req[p].url, rec[p], Later(UpdatedAt(urls))),
               snapshots, rec[p])

\* the requests of one client task
Requests(p) ==
    \/ insert_snapshot_crawl(p)
    \/ insert_snapshot_fetch_last(p)
    \/ insert_snapshot_insert(p)
    \/ insert_snapshot_relate(p)
    \/ fetch_url_to_snapshot_primary(p)
    \/ fetch_url_to_snapshot_fallback(p)
    \/ insert_url(p)
    \/ delete_url(p)

Next == \E p \in Procs : Requests(p)

Spec == Init /\ [][Next]_vars

(***************************************************************************)
(* The background jobs: html_parser (html_parser.rs) and embed             *)
(* (embeddings/jobs.rs).  Each is a loop over a 60 s interval whose body   *)
(* is the tick itself (html_parser also logs "Parsing HTML"); neither      *)
(* reads nor uses its pool, and neither has a way out of its loop: the     *)
(* interval fires again and again.                                         *)
(***************************************************************************)
TickReturnsAtLast(job) ==
    /\ ticks[job] < MaxTicks
    /\ ticks' = [ticks EXCEPT ![job] = ticks[job] + 1]
    /\ fault' = FALSE
    /\ out' = NoResponse
    /\ eff' = IF pc[Observed] = "idle" THEN {} ELSE eff
    /\ UNCHANGED <<urls, snapshots, early, requests, pc, req, rec, cycling, picked, clean, last>>
Tick(job) ==
    /\ ticks' = [ticks EXCEPT ![job] = (ticks[job] + 1) % (MaxTicks + 1)]
    /\ fault' = FALSE
    /\ out' = NoResponse
    /\ eff' = IF pc[Observed] = "idle" THEN {} ELSE eff
    /\ UNCHANGED <<urls, snapshots, early, requests, pc, req, rec, cycling, picked, clean, last>>

html_parser == Tick("html_parser")

embed == Tick("embed")

LoopNext ==
    \/ Next
    \/ html_parser
    \/ embed

LoopSpec ==
    /\ Init
    /\ [][LoopNext]_vars
    /\ WF_vars(html_parser)
    /\ WF_vars(embed)

(***************************************************************************)
(* The crawler: the client the gateway serves.  It asks GET /api/url for   *)
(* the next URL, fetches the page and posts it to POST /api/snapshots,     *)
(* which stamps the URL (crawl_url) and records the snapshot; then it      *)
(* starts over.  Page is the content the fetch finds at each URL; the      *)
(* pages do not change.  No statement of the crawler's requests fails.     *)
(* The other task sends requests at will, MaxRequests in all.              *)
(***************************************************************************)
Page(url) == IF url = UA THEN "<p>1</p>" ELSE "<p>2</p>"

SchedulerCycle ==
    \/ picked = NONE /\ fetch_url_to_snapshot_primary(Observed) /\ ~fault'
    \/ fetch_url_to_snapshot_fallback(Observed) /\ ~fault'
    \/ /\ picked # NONE
       /\ insert_snapshot_crawl_on(Observed,
              [op |-> "insert_snapshot", url |-> picked, html |-> Page(picked)])
       /\ ~fault'
    \/ insert_snapshot_fetch_last(Observed) /\ ~fault'
    \/ insert_snapshot_insert(Observed) /\ ~fault'
    \/ insert_snapshot_relate(Observed) /\ ~fault'

SchedInit == Start(TRUE)

SchedNext ==
    \/ SchedulerCycle
    \/ \E p \in Procs \ {Observed} : Requests(p)

SchedSpec ==
    /\ SchedInit
    /\ [][SchedNext]_vars
    /\ WF_vars(SchedulerCycle)
    /\ \A p \in Procs \ {Observed} : WF_vars(Requests(p))

(***************************************************************************)
(* The properties.  record_snapshot is insert_snapshot, submit-URL is      *)
(* insert_url, next_url is fetch_url_to_snapshot.  A property about one    *)
(* call, or two calls in a row, is stated of the requests of Observed; the *)
(* other task is whatever else runs against the store meanwhile.           *)
(***************************************************************************)
UrlEntries(url) == {r \in urls : r.url = url}
SnapshotsOf(url) == {s \in snapshots : s.url = url}

\* the step in which Observed runs the statement at `at`
Runs(at) == pc[Observed] = at /\ pc'[Observed] # at

\* the call before this one of Observed, in a row, left the snapshot last.sid,
\* and html is / is not that snapshot's content
SameAsLast(html) == \E s \in snapshots : s.id = last.sid /\ s.html = html
OtherThanLast(html) == \E s \in snapshots : s.id = last.sid /\ s.html # html

\* C1: when insert_snapshot(u, C) is called twice in a row with no other write
\* to u in between, the second call inserts no snapshot and returns "No need
\* to insert the same content twice." (or the storage error of its query):
\* the pair leaves the one row the first call inserted.
C1_SecondIdenticalCallIsDuplicate ==
    [][(/\ Runs("fetch_last")
        /\ InARow(req[Observed].url, clean)
        /\ SameAsLast(req[Observed].html))
       => /\ snapshots' = snapshots
          /\ pc'[Observed] = "idle"
          /\ out' \in {Duplicate, Response(500, "Failed to fetch last snapshot")}]_vars

C1_Witness ==
    /\ out = Duplicate
    /\ last.prev # NULL /\ last.sid = last.prev
    /\ \E s \in snapshots : s.id = last.sid /\ SnapshotsOf(last.url) = {s}

\* C2: in every reachable state, also under concurrent insert_snapshot calls
\* for one URL, no two snapshots of a URL that are adjacent in its created_at
\* order (one strictly after the other, none of that URL from the one to the
\* other) hold the same content.
C2_NoAdjacentIdenticalSnapshots ==
    \A s1, s2 \in snapshots :
        (/\ s1.url = s2.url
         /\ s1.created_at < s2.created_at
         /\ \A s3 \in SnapshotsOf(s1.url) \ {s1, s2} :
               s3.created_at < s1.created_at \/ s2.created_at < s3.created_at)
        => s1.html # s2.html

\* C3: when insert_snapshot(u, C1) and then insert_snapshot(u, C2), C1 # C2, are
\* called in a row on a tracked u, the second call is not answered as a
\* duplicate, and when it returns "Snapshot inserted" there are the two
\* snapshot rows and the urls row of u references the second.
C3_ChangedContentInsertsAndRelates ==
    [][/\ (/\ Runs("fetch_last")
           /\ InARow(req[Observed].url, clean)
           /\ OtherThanLast(req[Observed].html))
          => out' # Duplicate
       /\ (/\ Runs("relate")
           /\ InARow(req[Observed].url, clean)
           /\ OtherThanLast(req[Observed].html)
           /\ UrlEntries(req[Observed].url) # {}
           /\ out' = Response(200, "Snapshot inserted"))
          => /\ \E s1, s2 \in snapshots' :
                  /\ s1.id = last.sid /\ s2.id = rec[Observed]
                  /\ s1.id # s2.id
                  /\ s1.url = req[Observed].url /\ s2.url = req[Observed].url
                  /\ s2.html = req[Observed].html
             /\ \E r \in urls' : r.url = req[Observed].url
             /\ \A r \in urls' :
                  r.url = req[Observed].url => r.snapshot_id = rec[Observed]]_vars

C3_Witness ==
    /\ out = Response(200, "Snapshot inserted")
    /\ last.prev # NULL /\ last.sid # last.prev
    /\ Cardinality(SnapshotsOf(last.url)) = 2
    /\ \E r \in urls : r.url = last.url /\ r.snapshot_id = last.sid

\* C4: in every reachable state every urls row whose snapshot_id is not NULL
\* references an existing snapshot of the URL of that row.
C4_RelationPointsToSnapshotOfSameUrl ==
    \A r \in urls :
        r.snapshot_id # NULL
        => \E s \in snapshots : s.id = r.snapshot_id /\ s.url = r.url

C4_Witness ==
    \E r1, r2 \in urls :
        /\ r1.url # r2.url
        /\ r1.snapshot_id # NULL
        /\ r2.snapshot_id = NULL

\* C5: the INSERT INTO snapshots and the update of the reference are atomic: a
\* call that ends in the failure of the reference update has inserted no
\* snapshot.
C5_FailedCallInsertsNoSnapshot ==
    (out = Panic /\ UrlEntries(last.url) # {}) => "snapshot" \notin eff

\* C6: retrying insert_snapshot(u, C) after it failed with a storage error is
\* safe: when the call that failed had got as far as inserting its snapshot
\* and the retry, in a row, returns 200, the urls row of u references a
\* snapshot with content C.
C6_RetryAfterFailureRelates ==
    [][(/\ Runs("fetch_last") \/ Runs("relate")
        /\ InARow(req[Observed].url, clean)
        /\ last.body = Panic.body
        /\ SameAsLast(req[Observed].html)
        /\ out'.status = 200)
       => \A r \in urls' :
            r.url = req[Observed].url
            => \E s \in snapshots' : s.id = r.snapshot_id /\ s.html = req[Observed].html]_vars

\* C7, as the spec states it: an insert_snapshot call that returns "No need to
\* insert the same content twice." has written nothing: no snapshot, no
\* reference, no other field of a urls row.
C7_DuplicateWritesNothing ==
    out = Duplicate => eff = {}

\* C7, amended: an insert_snapshot call that returns "No need to insert the
\* same content twice." has inserted no snapshot, added or removed no urls
\* row and changed no snapshot_id; it has written at most crawled_at and
\* updated_at, which crawl_url stamps before the comparison.
C7_DuplicateOnlyStampsCrawl ==
    out = Duplicate => eff \subseteq {"crawled_at", "updated_at"}

C7_Witness ==
    /\ out = Duplicate
    /\ eff = {"crawled_at", "updated_at"}
    /\ \E r \in urls : r.url = last.url /\ r.snapshot_id = last.sid

\* the url strings that are no absolute URL with a host
NotAbsolute(u) == u # NONE /\ ~(UrlParse(u).ok /\ UrlParse(u).has_host)

\* C8: for every url that is no absolute URL with a host, insert_snapshot(url,
\* C) returns the client error 400 and writes nothing; it ends in no other
\* way.
C8_InvalidUrlIsClientError ==
    [][\A r \in SnapshotPayloads :
          (/\ NotAbsolute(r.url)
           /\ r.html # NONE
           /\ insert_snapshot_crawl_on(Observed, r))
          => /\ out'.status = 400
             /\ pc'[Observed] = "idle"
             /\ UNCHANGED <<urls, snapshots>>]_vars

\* C9: in every reachable state no two urls rows hold one URL, also when
\* requests run concurrently; insert_url of a URL that has a row leaves urls
\* as it is and returns "URL already exists" (or the storage error).
C9_OneUrlEntryPerUrl ==
    /\ [](\A r1, r2 \in urls : r1.url = r2.url => r1 = r2)
    /\ [][\A r \in UrlPayloads :
            (insert_url_on(Observed, r) /\ UrlEntries(r.url) # {})
            => /\ urls' = urls
               /\ out' \in {Response(200, "URL already exists"),
                            Response(500, "Failed to insert url")}]_vars

C9_Witness ==
    /\ out = Response(200, "URL already exists")
    /\ eff = {}
    /\ \E r \in urls : r.snapshot_id # NULL /\ r.crawled_at # NULL

\* C10: whenever some urls row has a NULL snapshot_id, fetch_url_to_snapshot
\* returns the URL of the row with the oldest updated_at among those with a
\* NULL snapshot_id (or the storage error), whatever rows have a reference.
C10_PrimaryReturnsOldestPending ==
    [][(/\ fetch_url_to_snapshot_primary(Observed)
        /\ \E r \in urls : r.snapshot_id = NULL)
       => \/ out' = Response(500, NONE)
          \/ \E r \in urls :
               /\ r.snapshot_id = NULL
               /\ \A o \in urls : o.snapshot_id = NULL => r.updated_at <= o.updated_at
               /\ out' = Response(200, r.url)
               /\ pc'[Observed] = "idle"]_vars

C10_Witness ==
    /\ out = Response(200, UA)
    /\ \E a, b \in urls :
         /\ a.url = UA /\ b.url = UB
         /\ a.snapshot_id = NULL /\ b.snapshot_id = NULL
         /\ a.updated_at < b.updated_at

\* C12: fetch_url_to_snapshot on an empty urls table returns no URL as a
\* normal outcome, not a server error; and it returns no URL only when no
\* statement failed and the table is empty.
C12_EmptyStoreIsNotAnError ==
    [][/\ (Runs("fallback") /\ urls = {} /\ ~fault') => out'.status # 500
       /\ (/\ Runs("idle") \/ Runs("fallback")
           /\ pc'[Observed] = "idle"
           /\ ~fault'
           /\ out'.body = NONE)
          => urls = {}]_vars

\* C14: snapshots are append-only: every step keeps every row of snapshots as
\* it is, whatever request it is a step of.
C14_SnapshotsAppendOnly ==
    [][snapshots \subseteq snapshots']_vars

C14_Witness ==
    /\ out = Response(200, "Url deleted")
    /\ "url_row" \in eff
    /\ \E s \in snapshots : UrlEntries(s.url) = {}

\* C15: fetch_url_to_snapshot is read-only: neither of its queries changes a
\* row of urls or of snapshots.
C15_FetchUrlIsReadOnly ==
    [][(\/ fetch_url_to_snapshot_primary(Observed)
        \/ fetch_url_to_snapshot_fallback(Observed))
       => UNCHANGED <<urls, snapshots>>]_vars

C15_Witness ==
    /\ out = Response(200, UB)
    /\ eff = {}
    /\ \E a, b \in urls : a.url = UA /\ b.url = UB

\* C16: the outcome classes (the validation failures are C8): a statement that
\* fails with a storage error ends the request with a 5xx response, never
\* with a success; a duplicate is a 200, never the outcome of a failure.
C16_StorageFailureIsServerError ==
    /\ fault => out.status = 500
    /\ out = Duplicate => ~fault

\* C17: when no insert_snapshot call for a URL is in flight, the urls row of
\* that URL, if its snapshot_id is not NULL, references the snapshot with the
\* greatest created_at of that URL.
C17_RelationPointsToLatestSnapshot ==
    \A r \in urls :
        (/\ r.snapshot_id # NULL
         /\ \A p \in Procs : req[p].op = "insert_snapshot" => req[p].url # r.url)
        => \E s \in SnapshotsOf(r.url) :
             /\ s.id = r.snapshot_id
             /\ \A o \in SnapshotsOf(r.url) : o.created_at <= s.created_at

\* crawl_url run once more on rows, at the time of the call
CrawledAgain(rows, url) ==
    crawl_url(rows, url, Later(CrawledAt(rows)), Later(UpdatedAt(rows)))

\* C18: crawl_url(url) writes only crawled_at and updated_at of the urls row of
\* url: the rows of other URLs, the url and snapshot_id of that row and all
\* snapshots stay, and a second call only overwrites what the first wrote.
C18_CrawlOnlyStamps ==
    /\ [](\A u \in Urls :
            /\ \A r \in urls : r.url # u => r \in CrawledAgain(urls, u)
            /\ \A r \in urls :
                 r.url = u
                 => \E r2 \in CrawledAgain(urls, u) :
                      /\ r2.id = r.id /\ r2.url = r.url
                      /\ r2.snapshot_id = r.snapshot_id
                      /\ r2.crawled_at = Later(CrawledAt(urls))
            /\ {r.id : r \in CrawledAgain(urls, u)} = {r.id : r \in urls}
            /\ \A c \in 1..2, t \in 1..2 :
                 crawl_url(CrawledAgain(urls, u), u, c, t) = crawl_url(urls, u, c, t))
    /\ [][(Runs("idle") /\ pc'[Observed] = "fetch_last")
          => /\ snapshots' = snapshots
             /\ eff' \subseteq {"crawled_at", "updated_at"}
             /\ \A r \in urls : \E r2 \in urls' :
                  r2.id = r.id /\ r2.url = r.url /\ r2.snapshot_id = r.snapshot_id]_vars

C18_Witness ==
    /\ pc[Observed] = "fetch_last"
    /\ eff = {"crawled_at", "updated_at"}
    /\ \E r \in urls : r.url = req[Observed].url /\ r.snapshot_id # NULL

\* C19, as the spec states it: whether insert_snapshot produces a snapshot does
\* not depend on the crawl stamp, nor on whether stamping succeeded: a call
\* with a valid payload always goes on to the comparison with the latest
\* snapshot.
C19_StampNeverEndsTheCall ==
    [][\A r \in SnapshotPayloads :
          (/\ r.url \in Urls /\ r.html # NONE
           /\ insert_snapshot_crawl_on(Observed, r))
          => pc'[Observed] = "fetch_last"]_vars

\* C19, amended: once the stamping statement has succeeded, whatever it
\* stamped, the call goes on to the comparison, and whether it then returns
\* "No need to insert the same content twice." or goes on to insert depends
\* only on its html and the snapshot of its URL with the greatest created_at
\* (unless the query fails); a storage failure of the stamping statement
\* ends the call before the comparison.
C19_DecisionByContentOnly ==
    [][/\ \A r \in SnapshotPayloads :
            (/\ r.url \in Urls /\ r.html # NONE
             /\ insert_snapshot_crawl_on(Observed, r)
             /\ ~fault')
            => pc'[Observed] = "fetch_last"
       /\ (Runs("fetch_last") /\ ~fault')
          => LET mine == SnapshotsOf(req[Observed].url)
                 newest == {s \in mine : \A o \in mine : o.created_at <= s.created_at}
             IN  \/ /\ out' = Duplicate
                    /\ pc'[Observed] = "idle"
                    /\ \E s \in newest : s.html = req[Observed].html
                 \/ /\ pc'[Observed] = "insert"
                    /\ newest = {} \/ \E s \in newest : s.html # req[Observed].html]_vars

C19_Witness ==
    /\ pc[Observed] = "insert"
    /\ eff = {}
    /\ SnapshotsOf(req[Observed].url) # {}

\* C20: on each tick of a background loop, if the store holds a URL to select,
\* the selected URL is crawled: when the tick is over some urls row bears the
\* latest crawl stamp, written by this tick; if the store holds no URL the
\* tick changes no row.
C20_TickCrawlsSelectedUrl ==
    [][(ticks' # ticks)
       => IF urls = {}
          THEN UNCHANGED <<urls, snapshots>>
          ELSE /\ urls' # urls \/ snapshots' # snapshots \/ pc' # pc
               /\ \E r \in urls' :
                    /\ r.crawled_at # NULL
                    /\ \A o \in urls' : o.crawled_at <= r.crawled_at]_vars

\* C11: when the urls table is not empty and every row has a snapshot_id, the
\* fetch_url_to_snapshot of the crawler returns, from its second query, the
\* URL of the row with the oldest updated_at (and never no URL), unless the
\* query fails.
C11_FallbackReturnsOldestUpdated ==
    [][(/\ Runs("fallback")
        /\ urls # {}
        /\ \A r \in urls : r.snapshot_id # NULL
        /\ ~fault')
       => \E r \in urls :
            /\ out' = Response(200, r.url)
            /\ \A o \in urls : r.updated_at <= o.updated_at]_vars

\* C13: while the crawler repeats its cycle (fetch_url_to_snapshot, then
\* insert_snapshot of the URL it was given, which stamps it and records the
\* page) and every request runs to its end, every URL that stays in table urls
\* is given to the crawler again and again.
C13_EveryTrackedUrlSelectedAgain ==
    \A u \in Urls : <>[](UrlEntries(u) # {}) => []<>(picked = u)

\* C22: the snapshots of one URL have pairwise distinct created_at, so the
\* latest snapshot of a URL is one row.
C22_CreatedAtDistinctPerUrl ==
    \A a, b \in snapshots :
        (a.url = b.url /\ a.created_at = b.created_at) => a = b

\* C23: the second query of fetch_url_to_snapshot in snapshots.rs (never
\* crawled first, then oldest crawled_at) and the one in main.rs (oldest
\* updated_at) are two orderings: when every row of urls has a snapshot_id
\* each returns a row, the first a never crawled row or else the one crawled
\* longest ago, the second the one updated longest ago, and where they return
\* different URLs the row of the first was updated later than the row of the
\* second.  The witness is a state where they return different URLs.
C23_TwoFallbackOrderings ==
    (urls # {} /\ \A r \in urls : r.snapshot_id # NULL)
    => /\ fetch_url_fallback(urls) # {}
       /\ fetch_url_oldest_updated(urls) # {}
       /\ \A a \in fetch_url_fallback(urls) :
            \/ a.crawled_at = NULL
            \/ \A o \in urls : o.crawled_at # NULL /\ a.crawled_at <= o.crawled_at
       /\ \A a \in fetch_url_fallback(urls), b \in fetch_url_oldest_updated(urls) :
            a.url # b.url => b.updated_at < a.updated_at

C23_Witness ==
    /\ urls # {}
    /\ \A r \in urls : r.snapshot_id # NULL
    /\ {r.url : r \in fetch_url_fallback(urls)}
         \cap {r.url : r \in fetch_url_oldest_updated(urls)} = {}

\* C24: delete_url with a URL answers "Url deleted" and removes the urls row of
\* that URL and nothing else: the other rows stay as they are and so do all
\* snapshots, those of the deleted URL included; on a URL with no row it
\* changes nothing; a delete_url that fails or has no url changes nothing;
\* and a row of urls goes only in a step of delete_url.
C24_DeleteRemovesOnlyThatRow ==
    [][/\ \A r \in DeletePayloads :
            delete_url_on(Observed, r)
            => IF r.url = NONE \/ fault'
               THEN UNCHANGED <<urls, snapshots>>
               ELSE /\ out' = Response(200, "Url deleted")
                    /\ snapshots' = snapshots
                    /\ {x.id : x \in urls'} = {x.id : x \in urls} \ {x.id : x \in UrlEntries(r.url)}
                    /\ \A x \in urls : x.url # r.url
                         => \E y \in urls' :
                              /\ y.id = x.id /\ y.url = x.url
                              /\ y.snapshot_id = x.snapshot_id
                              /\ (y.crawled_at = NULL) = (x.crawled_at = NULL)
                    /\ eff' \subseteq {"url_row"}
                    /\ UrlEntries(r.url) = {} => urls' = urls
       /\ ~({x.id : x \in urls} \subseteq {x.id : x \in urls'})
          => \E p \in Procs, r \in DeletePayloads : delete_url_on(p, r)]_vars

C24_Witness ==
    /\ out = Response(200, "Url deleted")
    /\ eff = {"url_row"}
    /\ urls # {}

\* C25: no statement of insert_snapshot adds a row to urls, and on a URL that
\* has no row its statements leave table urls as it is; when such a call
\* returns "Snapshot inserted" the snapshot row is there and the URL still has
\* no row.
C25_SnapshotCreatesNoUrlEntry ==
    [][/\ (\E p \in Procs :
             \/ insert_snapshot_crawl(p) \/ insert_snapshot_fetch_last(p)
             \/ insert_snapshot_insert(p) \/ insert_snapshot_relate(p))
          => {x.id : x \in urls'} = {x.id : x \in urls}
       /\ \A r \in SnapshotPayloads :
            (insert_snapshot_crawl_on(Observed, r) /\ UrlEntries(r.url) = {})
            => urls' = urls
       /\ (/\ Runs("fetch_last") \/ Runs("insert") \/ Runs("relate")
           /\ UrlEntries(req[Observed].url) = {})
          => urls' = urls
       /\ (/\ Runs("relate")
           /\ UrlEntries(req[Observed].url) = {}
           /\ out' = Response(200, "Snapshot inserted"))
          => /\ \E s \in snapshots' :
                  /\ s.id = rec[Observed]
                  /\ s.url = req[Observed].url
                  /\ s.html = req[Observed].html
             /\ \A x \in urls' : x.url # req[Observed].url]_vars

C25_Witness ==
    /\ out = Response(200, "Snapshot inserted")
    /\ eff = {"snapshot"}
    /\ UrlEntries(last.url) = {}
    /\ \E s \in snapshots : s.id = last.sid /\ s.url = last.url

\* C26: a urls row that stays in the table keeps a snapshot_id once it has one:
\* no step leaves a row with snapshot_id NULL that had one before the step.
C26_RelationNeverCleared ==
    [][\A x \in urls, y \in urls' :
          (x.id = y.id /\ x.snapshot_id # NULL) => y.snapshot_id # NULL]_vars

C26_Witness ==
    /\ out = Response(200, "URL already exists")
    /\ urls # {}
    /\ \A r \in urls : r.snapshot_id # NULL

====
